---- MODULE Spec2Model ----
(***************************************************************************)
(* A model of the streaming query-result cursor of RPostgres:              *)
(* PqResult (src/src/PqResult.cpp) and PqRow (src/src/PqRow.cpp) over one  *)
(* connection.  The connection object (PqConnection) and libpq are the     *)
(* environment; they are modelled at the interface the two files use.      *)
(***************************************************************************)
EXTENDS Integers, Sequences, FiniteSets, TLC

(* ---------------------------------------------------------------- bounds *)
\* Largest number of rows a modelled execution streams back.
MaxRows == 2
\* Largest declared parameter count of a prepared statement.
MaxParams == 1
\* Largest number of executions (sends) started on the connection.
MaxExec == 2
\* Largest length of a parameter column handed to bind_rows.
MaxBatch == 2
\* Largest row count of the stream in the fetch-all specification.
MaxBigRows == 410
\* Largest number of parameter columns in the batch specification.
MaxColumns == 2
\* Largest number of years before and after 1970 of a decoded date.
MaxYearsFromEpoch == 131
\* Largest number of columns of a statement whose column information is asked.
MaxFields == 2

\* Initial capacity of the output buffers of a "fetch all".
InitCap == 100

\* The PqResult objects that are created on the one connection.
Results == {1, 2}
\* The connection's current-result pointer when no result is registered.
NULL == 0

VARIABLES
  cur,     \* PqConnection::pCurrentResult_ : NULL or the registered PqResult
  conn,    \* libpq connection: the execution in progress and its pending units
  stmt,    \* the server's unnamed prepared statement
  rs,      \* the PqResult objects
  last     \* the last operation called, its arguments and what it returned

vars == <<cur, conn, stmt, rs, last>>

(* ------------------------------------------------------- response units *)
\* PQgetResult returned NULL.
NullUnit == [status |-> "NULL", ex |-> 0, row |-> 0, cmd |-> 0]
\* pNextRow_ holds no PqRow.
NoRow == [status |-> "NONE", ex |-> 0, row |-> 0, cmd |-> 0]

\* The connection with nothing in progress (PGASYNC_IDLE).
IdleConn(c) ==
  [busy |-> FALSE, ex |-> c.ex, owner |-> NULL, rows |-> 0, sent |-> 0,
   term |-> "NONE", single |-> FALSE]

\* Number of single-row units the execution in progress delivers.
RowUnits(c) == IF c.single /\ c.term # "COMMAND_OK" THEN c.rows ELSE 0

\* PQgetResult: the next response unit of the execution in progress, NULL
\* (and the connection idle again) once the terminal unit has been taken.
PQgetResult(c) ==
  IF ~c.busy THEN [unit |-> NullUnit, c |-> c]
  ELSE IF c.sent < RowUnits(c) THEN
    [unit |-> [status |-> "SINGLE_TUPLE", ex |-> c.ex, row |-> c.sent + 1,
               cmd |-> 0],
     c |-> [c EXCEPT !.sent = @ + 1]]
  ELSE IF c.sent = RowUnits(c) THEN
    [unit |-> [status |-> c.term, ex |-> c.ex, row |-> 0,
               cmd |-> IF c.term = "FATAL_ERROR" THEN 0 ELSE c.rows],
     c |-> [c EXCEPT !.sent = @ + 1]]
  ELSE [unit |-> NullUnit, c |-> IdleConn(c)]

\* PQexecStart, run by PQprepare, PQdescribePrepared and PQexecPrepared:
\* the results of an earlier command that were not taken are discarded.
PQexecStart(c) == IdleConn(c)

\* PQsendQueryPrepared: refused while another command is in progress,
\* otherwise the execution st starts.
PQsendQueryPrepared(c, r, ok, st) ==
  IF c.busy \/ ~ok THEN [ok |-> FALSE, c |-> c]
  ELSE [ok |-> TRUE,
        c |-> [busy |-> TRUE, ex |-> c.ex + 1, owner |-> r, rows |-> st.rows,
               sent |-> 0, term |-> st.term, single |-> FALSE]]

\* PQsetSingleRowMode: only right after a send, before a result is taken.
PQsetSingleRowMode(c, ok) ==
  IF c.busy /\ c.sent = 0 /\ ok THEN [ok |-> TRUE, c |-> [c EXCEPT !.single = TRUE]]
  ELSE [ok |-> FALSE, c |-> c]

\* What the server answers to an execution of the unnamed statement s with
\* np parameters: an error when the statement is gone or the count is wrong.
Streams(s, np) ==
  IF s.kind = "none" \/ s.np # np THEN {[rows |-> 0, term |-> "FATAL_ERROR"]}
  ELSE IF s.kind = "command" THEN
    {[rows |-> 1, term |-> "COMMAND_OK"], [rows |-> 0, term |-> "FATAL_ERROR"]}
  ELSE [rows : 0..MaxRows, term : {"TUPLES_OK"}]
         \cup [rows : 0..(MaxRows - 1), term : {"FATAL_ERROR"}]

(* ----------------------------------------------------------------- PqRow *)
\* The loop of PqRow::PqRow that takes results until PQgetResult is NULL.
RECURSIVE DrainToNull(_, _)
DrainToNull(c, k) ==
  LET g == PQgetResult(c) IN
  IF g.unit = NullUnit THEN [c |-> g.c, pulled |-> k + 1]
  ELSE DrainToNull(g.c, k + 1)

\* PqRow::PqRow(conn): one result is taken; after PGRES_TUPLES_OK the rest
\* is drained; no result is "No active query", a fatal one the server error.
\* got counts the results obtained (NULL is none) and cleared the PQclear
\* calls on them: each result of the drain loop, and a fatal first result.
PqRow(c) ==
  LET g == PQgetResult(c)
      d == IF g.unit.status = "TUPLES_OK" THEN DrainToNull(g.c, 1)
           ELSE [c |-> g.c, pulled |-> 1]
      drained == IF g.unit.status = "TUPLES_OK" THEN d.pulled - 2 ELSE 0
  IN
  IF g.unit = NullUnit
    THEN [row |-> NoRow, c |-> d.c, err |-> "ProtocolError", pulled |-> d.pulled,
          got |-> 0, cleared |-> 0]
  ELSE IF g.unit.status = "FATAL_ERROR"
    THEN [row |-> NoRow, c |-> d.c, err |-> "QueryError", pulled |-> d.pulled,
          got |-> 1, cleared |-> 1]
  ELSE [row |-> g.unit, c |-> d.c, err |-> "ok", pulled |-> d.pulled,
        got |-> 1 + drained, cleared |-> drained]

\* PqRow::has_data
has_data(row) == row.status = "SINGLE_TUPLE"

\* PqRow::n_rows_affected: atoi(PQcmdTuples(pRes_))
row_n_rows_affected(row) == row.cmd

(* -------------------------------------------------------------- PqResult *)
\* A PqResult that was not constructed yet ("none"), one whose constructor
\* threw ("failed"), a constructed one ("live") and a destroyed one ("dead").
\* given, sends, exid, robbed and note are bookkeeping: the rows returned
\* so far, the executions sent and the last one's number, whether another
\* object took units of one, and the stage of a destroyed object when it
\* was destroyed.
Blank(st) ==
  [st |-> st, nparams |-> 0, bound |-> FALSE, nrows |-> 0, next |-> NoRow,
   given |-> 0, sends |-> 0, exid |-> 0, robbed |-> FALSE, note |-> ""]

\* What is recorded of the last call: the operation and its outcome.
Op(op, out) == [op |-> op, out |-> out]

\* PqConnection::set_current_result
set_current_result(p) == p

\* PqConnection::is_current_result, as used by PqResult::active
active(r) == cur = r

\* Bookkeeping: the sender of the execution in progress lost a unit to
\* another PqResult when that one took a result off the connection.
Rob(rsv, r, c0, pulled) ==
  IF c0.busy /\ c0.owner \notin {r, NULL} /\ pulled > 0
     /\ c0.sent <= RowUnits(c0)
    THEN [rsv EXCEPT ![c0.owner].robbed = TRUE]
    ELSE rsv

\* PqResult::fetch_row: pNextRow_.reset(new PqRow(conn)); nrows_++.
\* When the PqRow constructor throws, neither assignment happens.
fetch_row(R, c) ==
  LET p == PqRow(c) IN
  IF p.err # "ok" THEN [R |-> R, c |-> p.c, err |-> p.err, pulled |-> p.pulled]
  ELSE [R |-> [R EXCEPT !.next = p.row, !.nrows = @ + 1], c |-> p.c,
        err |-> "ok", pulled |-> p.pulled]

\* PqResult::fetch_row_if_needed
fetch_row_if_needed(R, c) ==
  IF R.next # NoRow THEN [R |-> R, c |-> c, err |-> "ok", pulled |-> 0]
  ELSE fetch_row(R, c)

\* The lookahead cursor reports no more row data.
Complete(R) == R.next # NoRow /\ ~has_data(R.next)

\* Mutant: bind() that leaves bound_ as it is.
bind_unflagged(R, c, r, sendOk, srmOk, st) ==
  LET s == PQsendQueryPrepared(c, r, sendOk, st)
      m == PQsetSingleRowMode(s.c, srmOk)
      S == [R EXCEPT !.sends = @ + 1, !.exid = s.c.ex, !.given = 0]
  IN
  IF ~s.ok THEN [R |-> R, c |-> s.c, err |-> "QueryError", sent |-> 0]
  ELSE IF ~m.ok THEN [R |-> S, c |-> m.c, err |-> "QueryError", sent |-> 1]
  ELSE [R |-> S, c |-> m.c, err |-> "ok", sent |-> 1]

\* PqResult::bind(): bound_ = true, then the send, then single-row mode.
bind(R, c, r, sendOk, srmOk, st) ==
  LET B == [R EXCEPT !.bound = TRUE]
      s == PQsendQueryPrepared(c, r, sendOk, st)
      m == PQsetSingleRowMode(s.c, srmOk)
      S == [B EXCEPT !.sends = @ + 1, !.exid = s.c.ex, !.given = 0]
  IN
  IF ~s.ok THEN [R |-> B, c |-> s.c, err |-> "QueryError", sent |-> 0]
  ELSE IF ~m.ok THEN [R |-> S, c |-> m.c, err |-> "QueryError", sent |-> 1]
  ELSE [R |-> S, c |-> m.c, err |-> "ok", sent |-> 1]

\* The body of the decode loop of PqResult::fetch: the lookahead row is
\* decoded into slot i of the buffers (of length n2 after a doubling) and
\* the next row is taken (f); i is incremented.  s holds the object, the
\* connection, the rows written (i), the buffer length (n), the rows
\* decoded, the PQgetResult calls made and the error that ended the loop.
fetch_body(s, n2, f) ==
  [R |-> f.R, c |-> f.c, i |-> s.i + 1, n |-> n2,
   out |-> Append(s.out, <<s.R.next.ex, s.R.next.row>>),
   pulled |-> s.pulled + f.pulled, err |-> f.err]

\* The buffer length for the next row: doubled when a "fetch all" has
\* filled the buffers.
Grown(i, n) == IF i >= n THEN n * 2 ELSE n

\* The condition of the decode loop of PqResult::fetch: the lookahead has
\* data, and for a limited fetch fewer than n rows were written; a pull
\* that throws leaves the loop.
fetch_continues(s, n_max) ==
  /\ s.err = "ok"
  /\ has_data(s.R.next)
  /\ ~(s.i >= s.n /\ n_max >= 0)

\* One pass of the loop: grow the buffers if full, decode the lookahead,
\* pull the next unit.
fetch_pass(s) == fetch_body(s, Grown(s.i, s.n), fetch_row(s.R, s.c))

\* Up to k passes of the loop, evaluated as two halves one after the
\* other so that the evaluation nests to depth log k.
RECURSIVE fetch_passes(_, _, _)
fetch_second(t, n_max, k) == fetch_passes(t, n_max, k)

fetch_passes(s, n_max, k) ==
  IF ~fetch_continues(s, n_max) THEN s
  ELSE IF k <= 1 THEN fetch_pass(s)
  ELSE fetch_second(fetch_passes(s, n_max, k \div 2), n_max, k - (k \div 2))

\* The decode loop of PqResult::fetch; a stream has no more rows than
\* MaxBigRows, so the loop ends within MaxBigRows + 1 passes.
fetch_loop(s, n_max) == fetch_passes(s, n_max, MaxBigRows + 1)

\* The loop of PqResult::fetch after fetch_row_if_needed (p), with buffers
\* of length n.
fetch_start(p, n, n_max) ==
  IF p.err # "ok"
    THEN [R |-> p.R, c |-> p.c, i |-> 0, n |-> n, out |-> <<>>,
          pulled |-> p.pulled, err |-> p.err]
    ELSE fetch_loop([R |-> p.R, c |-> p.c, i |-> 0, n |-> n, out |-> <<>>,
                     pulled |-> p.pulled, err |-> "ok"], n_max)

\* df_resize at the end of fetch: the buffers are cut back to the rows
\* written when fewer than their length were written.
TrimmedLength(i, n) == IF i < n THEN i ELSE n

\* What PqResult::fetch returns after the loop (l): the rows decoded in
\* buffers of the trimmed length, or the error that ended the loop.
fetch_end(l) ==
  IF l.err # "ok"
    THEN [R |-> l.R, c |-> l.c, err |-> l.err, out |-> <<>>, cap |-> 0,
          pulled |-> l.pulled]
    ELSE [R |-> [l.R EXCEPT !.given = @ + l.i], c |-> l.c, err |-> "ok",
          out |-> l.out, cap |-> TrimmedLength(l.i, l.n), pulled |-> l.pulled]

\* Mutant: fetch without the check of active().
fetch_unregistered(R, c, isActive, n_max) ==
  IF ~R.bound
    THEN [R |-> R, c |-> c, err |-> "BindingError", out |-> <<>>, cap |-> 0,
          pulled |-> 0]
  ELSE fetch_end(fetch_start(fetch_row_if_needed(R, c),
                             IF n_max < 0 THEN InitCap ELSE n_max, n_max))

\* Mutant: fetch without the check of bound_.
fetch_unbound(R, c, isActive, n_max) ==
  IF ~isActive
    THEN [R |-> R, c |-> c, err |-> "StaleResultError", out |-> <<>>,
          cap |-> 0, pulled |-> 0]
  ELSE fetch_end(fetch_start(fetch_row_if_needed(R, c),
                             IF n_max < 0 THEN InitCap ELSE n_max, n_max))

\* PqResult::fetch(n_max) on the object R, registered (isActive) or not.
fetch(R, c, isActive, n_max) ==
  IF ~R.bound
    THEN [R |-> R, c |-> c, err |-> "BindingError", out |-> <<>>, cap |-> 0,
          pulled |-> 0]
  ELSE IF ~isActive
    THEN [R |-> R, c |-> c, err |-> "StaleResultError", out |-> <<>>,
          cap |-> 0, pulled |-> 0]
  ELSE fetch_end(fetch_start(fetch_row_if_needed(R, c),
                             IF n_max < 0 THEN InitCap ELSE n_max, n_max))

\* PqResult::bind(List params): the arity check, the send, single-row
\* mode, and only then bound_ = true.
bind_params(R, c, r, nsup, sendOk, srmOk, st) ==
  IF nsup # R.nparams THEN [R |-> R, c |-> c, err |-> "ArityError", sent |-> 0]
  ELSE
    LET s == PQsendQueryPrepared(c, r, sendOk, st)
        m == PQsetSingleRowMode(s.c, srmOk)
        S == [R EXCEPT !.sends = @ + 1, !.exid = s.c.ex, !.given = 0]
    IN
    IF ~s.ok THEN [R |-> R, c |-> s.c, err |-> "QueryError", sent |-> 0]
    ELSE IF ~m.ok THEN [R |-> S, c |-> m.c, err |-> "QueryError", sent |-> 1]
    ELSE [R |-> [S EXCEPT !.bound = TRUE], c |-> m.c, err |-> "ok", sent |-> 1]

\* PQresultStatus of PQexecPrepared for one row: the server rejects the row
\* when the statement is gone, the parameter count is wrong or the row is
\* the one it refuses; a query answers PGRES_TUPLES_OK.
ExecStatus(s, np, rejected) ==
  IF s.kind = "none" \/ s.np # np \/ rejected THEN "FATAL_ERROR"
  ELSE IF s.kind = "command" THEN "COMMAND_OK"
  ELSE "TUPLES_OK"

\* Reading param[i] (0-based) of every column: past the end of a column
\* the read is out of bounds.
OutOfBounds(lens, i) == \E j \in DOMAIN lens : lens[j] <= i

\* One row of bind_rows: PQexecPrepared for row i (0-based) answered with
\* status.  t holds the rows attempted and applied so far, the error, and
\* the number of results of PQexecPrepared (res) given to PQclear: the loop
\* has no PQclear, on either branch.
exec_row(t, i, status) ==
  [err |-> IF status # "COMMAND_OK" THEN "QueryError" ELSE "ok",
   errrow |-> IF status # "COMMAND_OK" THEN i + 1 ELSE 0,
   att |-> Append(t.att, i + 1),
   app |-> IF status = "FATAL_ERROR" THEN t.app ELSE Append(t.app, i + 1),
   cleared |-> t.cleared]

\* The row loop of PqResult::bind_rows, from row i (0-based) of n.
RECURSIVE bind_rows_loop(_, _, _, _, _, _, _, _)
\* Mutant: the loop goes on after a row that failed.
bind_rows_regardless(i, n, lens, s, np, failAt, faults, u) ==
  bind_rows_loop(i, n, lens, s, np, failAt, faults, [u EXCEPT !.err = "ok"])

\* After a row: stop() ends the loop, otherwise the next row.
bind_rows_next(i, n, lens, s, np, failAt, faults, u) ==
  IF u.err # "ok" THEN u
  ELSE bind_rows_loop(i, n, lens, s, np, failAt, faults, u)

bind_rows_loop(i, n, lens, s, np, failAt, faults, t) ==
  IF i >= n THEN t
  ELSE IF OutOfBounds(lens, i) /\ faults THEN [t EXCEPT !.err = "Crash"]
  ELSE bind_rows_next(i + 1, n, lens, s, np, failAt, faults,
                      exec_row(t, i, ExecStatus(s, np, failAt = i + 1)))

\* The number of rows bind_rows runs: the length of the first column; with
\* no column params[0] is read out of bounds and it is what is found there.
BatchRows(lens, garbage) == IF Len(lens) = 0 THEN garbage ELSE lens[1]

\* PqResult::bind_rows(List params).  lens are the lengths of the columns
\* supplied, s the server's statement, failAt the row the server rejects,
\* intr a pending user interrupt; an out-of-bounds read faults or not.
bind_rows(R, lens, s, failAt, intr, garbage, faults) ==
  IF Len(lens) # R.nparams
    THEN [err |-> "ArityError", errrow |-> 0, att |-> <<>>, app |-> <<>>,
          cleared |-> 0]
  ELSE IF Len(lens) = 0 /\ faults
    THEN [err |-> "Crash", errrow |-> 0, att |-> <<>>, app |-> <<>>,
          cleared |-> 0]
  ELSE IF BatchRows(lens, garbage) > 0 /\ intr
    THEN [err |-> "InterruptedError", errrow |-> 0, att |-> <<>>, app |-> <<>>,
          cleared |-> 0]
  ELSE bind_rows_loop(0, BatchRows(lens, garbage), lens, s, R.nparams, failAt,
                      faults, [err |-> "ok", errrow |-> 0, att |-> <<>>,
                               app |-> <<>>, cleared |-> 0])

\* PqResult::n_rows_fetched
n_rows_fetched(R) == R.nrows - (IF R.next # NoRow THEN 1 ELSE 0)

\* Mutant: the catch block rethrows without deregistering.
ctor_rethrow(cv) == cv

\* The catch block of the constructor: set_current_result(NULL), throw.
\* cv is the registration made at the start of the constructor.
ctor_catch(cv) == set_current_result(NULL)

\* PqResult::PqResult(pConn, sql) for the object r, from the registered
\* result cv, the connection c and the server's statement s.  in says how
\* far the constructor gets, what is prepared and the server's answer to
\* the auto-bind.  A constructor that throws leaves no object, and its
\* destructor never runs.  pSpec says what became of the result of
\* PQdescribePrepared: "none" when there is none, "cleared" when it was
\* given to PQclear, "held" when it is in pSpec_ at the end.
PqResult(cv, c, s, r, in) ==
  IF ~in.connOk THEN
    [R |-> Blank("failed"), c |-> c, stmt |-> s, cur |-> cv,
     err |-> "ConnectionError", pSpec |-> "none"]
  ELSE IF ~in.prepOk THEN
    [R |-> Blank("failed"), c |-> PQexecStart(c),
     stmt |-> [np |-> 0, kind |-> "none"], cur |-> ctor_catch(set_current_result(r)),
     err |-> "QueryError", pSpec |-> "none"]
  ELSE IF ~in.descOk THEN
    [R |-> Blank("failed"), c |-> PQexecStart(c),
     stmt |-> [np |-> in.np, kind |-> in.kind],
     cur |-> ctor_catch(set_current_result(r)), err |-> "QueryError",
     pSpec |-> "cleared"]
  ELSE
    LET R0 == [Blank("live") EXCEPT !.nparams = in.np]
        b == IF in.np = 0
             THEN bind(R0, PQexecStart(c), r, in.sendOk, in.srmOk, in.st)
             ELSE [R |-> R0, c |-> PQexecStart(c), err |-> "ok", sent |-> 0]
    IN
    IF b.err # "ok"
      THEN [R |-> Blank("failed"), c |-> b.c,
            stmt |-> [np |-> in.np, kind |-> in.kind],
            cur |-> ctor_catch(set_current_result(r)), err |-> b.err,
            pSpec |-> "held"]
      ELSE [R |-> b.R, c |-> b.c, stmt |-> [np |-> in.np, kind |-> in.kind],
            cur |-> set_current_result(r), err |-> "ok", pSpec |-> "held"]

\* The stage of an object's life, noted when it is destroyed.
Stage(R, isActive) ==
  IF ~isActive THEN "stale"
  ELSE IF ~R.bound THEN "unbound"
  ELSE IF Complete(R) THEN "complete"
  ELSE "undrained"

\* Mutant: the destructor leaves the registration.
Destructor_keeping(cv, r) == cv

\* PqResult::~PqResult: a registered object deregisters itself.
Destructor(cv, r) == IF cv = r THEN set_current_result(NULL) ELSE cv

\* PqResult::~PqResult: what becomes of pSpec_, given to PQclear by a
\* registered object only.
Destructor_pSpec(cv, r) == IF cv = r THEN "cleared" ELSE "held"

(* --------------------------------------------------------------- actions *)
\* Arguments of fetch that are tried.
FetchArgs == (0 - 1) .. MaxRows

\* PqResult::PqResult(pConn, sql).  The objects are numbered in the order
\* of their construction.
Construct(r, in) ==
  /\ rs[r].st = "none"
  /\ \A q \in Results : q < r => rs[q].st # "none"
  /\ conn.ex < MaxExec
  /\ LET k == PqResult(cur, conn, stmt, r, in) IN
     /\ rs' = [rs EXCEPT ![r] = k.R]
     /\ cur' = k.cur
     /\ conn' = k.c
     /\ stmt' = k.stmt
     /\ last' = Op("construct", k.err)

\* PqResult::~PqResult
Destroy(r) ==
  /\ rs[r].st = "live"
  /\ rs' = [rs EXCEPT ![r] = [Blank("dead") EXCEPT !.note = Stage(rs[r], active(r))]]
  /\ cur' = Destructor(cur, r)
  /\ last' = Op("destroy", "ok")
  /\ UNCHANGED <<conn, stmt>>

\* PqResult::fetch(n_max)
Fetch(r, n_max) ==
  /\ rs[r].st = "live"
  /\ LET f == fetch(rs[r], conn, active(r), n_max) IN
     /\ rs' = Rob([rs EXCEPT ![r] = f.R], r, conn, f.pulled)
     /\ conn' = f.c
     /\ last' = Op(IF n_max < 0 THEN "fetch_all" ELSE "fetch", f.err)
  /\ UNCHANGED <<cur, stmt>>

\* PqResult::bind(), called on a constructed object
Bind(r, in) ==
  /\ rs[r].st = "live"
  /\ conn.ex < MaxExec
  /\ LET b == bind(rs[r], conn, r, in.sendOk, in.srmOk, in.st) IN
     /\ rs' = [rs EXCEPT ![r] = b.R]
     /\ conn' = b.c
     /\ last' = Op("bind", b.err)
  /\ UNCHANGED <<cur, stmt>>

\* PqResult::bind(List params) with in.nsup parameters
BindParams(r, in) ==
  /\ rs[r].st = "live"
  /\ conn.ex < MaxExec
  /\ LET b == bind_params(rs[r], conn, r, in.nsup, in.sendOk, in.srmOk,
                          in.st) IN
     /\ rs' = [rs EXCEPT ![r] = b.R]
     /\ conn' = b.c
     /\ last' = Op("bind_params", b.err)
  /\ UNCHANGED <<cur, stmt>>

\* PqResult::bind_rows(List params), t being what the call does for one of
\* the inputs: PQexecPrepared is run once per row attempted.
BindRows(r, t) ==
  /\ rs[r].st = "live"
  /\ conn' = IF Len(t.att) > 0 THEN PQexecStart(conn) ELSE conn
  /\ last' = [op |-> "bind_rows", out |-> t.err, errrow |-> t.errrow,
               att |-> t.att, app |-> t.app]
  /\ UNCHANGED <<cur, stmt, rs>>

\* PqResult::is_complete
IsComplete(r) ==
  /\ rs[r].st = "live"
  /\ LET p == fetch_row_if_needed(rs[r], conn) IN
     /\ rs' = Rob([rs EXCEPT ![r] = p.R], r, conn, p.pulled)
     /\ conn' = p.c
     /\ last' = Op("is_complete", p.err)
  /\ UNCHANGED <<cur, stmt>>

\* PqResult::n_rows_affected
NRowsAffected(r) ==
  /\ rs[r].st = "live"
  /\ LET p == fetch_row_if_needed(rs[r], conn) IN
     /\ rs' = Rob([rs EXCEPT ![r] = p.R], r, conn, p.pulled)
     /\ conn' = p.c
     /\ last' = Op("n_rows_affected", p.err)
  /\ UNCHANGED <<cur, stmt>>

\* PqResult::n_rows_fetched
NRowsFetched(r) ==
  /\ rs[r].st = "live"
  /\ last' = Op("n_rows_fetched", "ok")
  /\ UNCHANGED <<cur, conn, stmt, rs>>

(* ---------------------------------------------------------------- inputs *)
\* The inputs of the constructor: how far it gets (the connection check,
\* the prepare, the describe, the send, the switch to single-row mode) and
\* the statement that is prepared, with at most maxp parameters, and the
\* server's answer to the auto-bind of a parameterless statement.
CtorInputs(maxp) ==
  LET none == {[rows |-> 0, term |-> "FATAL_ERROR"]} IN
  [connOk : {FALSE}, prepOk : {TRUE}, descOk : {TRUE}, np : {0},
   kind : {"select"}, sendOk : {TRUE}, srmOk : {TRUE}, st : none]
  \cup [connOk : {TRUE}, prepOk : {FALSE}, descOk : {TRUE}, np : {0},
        kind : {"select"}, sendOk : {TRUE}, srmOk : {TRUE}, st : none]
  \cup [connOk : {TRUE}, prepOk : {TRUE}, descOk : {FALSE}, np : 0..maxp,
        kind : {"select", "command"}, sendOk : {TRUE}, srmOk : {TRUE},
        st : none]
  \cup [connOk : {TRUE}, prepOk : {TRUE}, descOk : {TRUE}, np : 1..maxp,
        kind : {"select", "command"}, sendOk : {TRUE}, srmOk : {TRUE},
        st : none]
  \cup [connOk : {TRUE}, prepOk : {TRUE}, descOk : {TRUE}, np : {0},
        kind : {"select", "command"}, sendOk : {FALSE}, srmOk : {TRUE},
        st : none]
  \cup UNION {[connOk : {TRUE}, prepOk : {TRUE}, descOk : {TRUE}, np : {0},
               kind : {k}, sendOk : {TRUE}, srmOk : BOOLEAN,
               st : Streams([np |-> 0, kind |-> k], 0)] :
                 k \in {"select", "command"}}

\* The inputs of a send of np parameters for the statement s: refused, or
\* sent and answered by st, with single-row mode refused or accepted.
SendInputs(s, np) ==
  [sendOk : {FALSE}, srmOk : {TRUE}, st : {[rows |-> 0, term |-> "FATAL_ERROR"]}]
  \cup [sendOk : {TRUE}, srmOk : BOOLEAN, st : Streams(s, np)]

\* The inputs of bind(List params) on the object R: a wrong number of
\* parameters, or the right number and the inputs of the send.
BindInputs(R, s) ==
  [nsup : (0..MaxParams) \ {R.nparams}, sendOk : {TRUE}, srmOk : {TRUE},
   st : {[rows |-> 0, term |-> "FATAL_ERROR"]}]
  \cup [nsup : {R.nparams}, sendOk : {FALSE}, srmOk : {TRUE},
        st : {[rows |-> 0, term |-> "FATAL_ERROR"]}]
  \cup [nsup : {R.nparams}, sendOk : {TRUE}, srmOk : BOOLEAN,
        st : Streams(s, R.nparams)]

\* The column lengths handed to bind_rows: up to maxp columns.
ColumnLengths(maxp) == UNION {[1..k -> 0..MaxBatch] : k \in 0..maxp}

\* The inputs of bind_rows: the column lengths, the row the server rejects
\* (0: none), a pending user interrupt, what is found where params[0] is
\* read off an empty list, and whether an out-of-bounds read faults.
BatchInputs(maxp) ==
  [lens : ColumnLengths(maxp) \ {<<>>}, failAt : 0..MaxBatch, intr : BOOLEAN,
   garbage : {0}, faults : BOOLEAN]
  \cup [lens : {<<>>}, failAt : 0..MaxBatch, intr : BOOLEAN,
        garbage : 0..MaxBatch, faults : BOOLEAN]

\* What bind_rows does on the object R for each of its inputs.
BatchOutcomes(R, s, maxp) ==
  {bind_rows(R, in.lens, s, in.failAt, in.intr, in.garbage, in.faults) :
     in \in BatchInputs(maxp)}

(* --------------------------------------------------------- specification *)
Init ==
  /\ cur = NULL
  /\ conn = IdleConn([ex |-> 0])
  /\ stmt = [np |-> 0, kind |-> "none"]
  /\ rs = [r \in Results |-> Blank("none")]
  /\ last = Op("none", "ok")

Next ==
  \/ \E r \in Results, in \in CtorInputs(MaxParams) : Construct(r, in)
  \/ \E r \in Results : Destroy(r)
  \/ \E r \in Results, n \in FetchArgs : Fetch(r, n)
  \/ \E r \in Results : \E in \in SendInputs(stmt, 0) : Bind(r, in)
  \/ \E r \in Results : \E in \in BindInputs(rs[r], stmt) : BindParams(r, in)
  \/ \E r \in Results : \E t \in BatchOutcomes(rs[r], stmt, MaxParams) :
       BindRows(r, t)
  \/ \E r \in Results : IsComplete(r)
  \/ \E r \in Results : NRowsAffected(r)
  \/ \E r \in Results : NRowsFetched(r)

Spec == Init /\ [][Next]_vars

\* The fetch-all specification: one object constructed for a parameterless
\* query whose answer is a stream of up to MaxBigRows rows, fetched with a
\* limit of 0 or without limit, and sent again with bind().
InitFetchAll ==
  \E R \in 0..MaxBigRows :
    LET k == PqResult(NULL, IdleConn([ex |-> 0]), [np |-> 0, kind |-> "none"],
                      1, [connOk |-> TRUE, prepOk |-> TRUE, descOk |-> TRUE,
                          np |-> 0, kind |-> "select", sendOk |-> TRUE,
                          srmOk |-> TRUE,
                          st |-> [rows |-> R, term |-> "TUPLES_OK"]])
    IN
    /\ cur = k.cur
    /\ conn = k.c
    /\ stmt = k.stmt
    /\ rs = [r \in Results |-> IF r = 1 THEN k.R ELSE Blank("none")]
    /\ last = Op("construct", k.err)

NextFetchAll ==
  \/ \E n \in {0 - 1, 0} : Fetch(1, n)
  \/ \E in \in SendInputs(stmt, 0) : Bind(1, in)

SpecFetchAll == InitFetchAll /\ [][NextFetchAll]_vars

\* The batch specification: objects are constructed for statements of up
\* to MaxColumns parameters and destroyed, and bind_rows is called with
\* up to MaxColumns columns of up to MaxBatch values each.
NextBatch ==
  \/ \E r \in Results, in \in CtorInputs(MaxColumns) : Construct(r, in)
  \/ \E r \in Results : Destroy(r)
  \/ \E r \in Results : \E t \in BatchOutcomes(rs[r], stmt, MaxColumns) :
       BindRows(r, t)

SpecBatch == Init /\ [][NextBatch]_vars

(* -------------------------------------------------------------- decoding *)
\* The column types of PGTypes.
PGTypes == {"PGInt", "PGReal", "PGString", "PGLogical", "PGVector", "PGDate",
            "PGDatetime", "PGDatetimeTZ", "PGTime"}

\* A column of the row held by a PqRow: null or not, and its text as the
\* character codes libpq hands out.  PQgetvalue of a null column is the
\* empty string and PQgetlength of it is 0.
NullCell == [null |-> TRUE, text |-> <<>>]
Cell(text) == [null |-> FALSE, text |-> text]
PQgetvalue(cell) == IF cell.null THEN <<>> ELSE cell.text
PQgetlength(cell) == IF cell.null THEN 0 ELSE Len(cell.text)

\* PqRow::is_null
is_null(cell) == cell.null

\* The missing values of R and the values the accessors produce.
NA_INTEGER == [kind |-> "NA_INTEGER"]
NA_REAL == [kind |-> "NA_REAL"]
NA_STRING == [kind |-> "NA_STRING"]
NA_LOGICAL == [kind |-> "NA_LOGICAL"]
IntValue(v) == [kind |-> "int", v |-> v]
\* A double: whole + num / den.
RealValue(whole, num, den) ==
  [kind |-> "real", whole |-> whole, num |-> num, den |-> den]
StringValue(text) == [kind |-> "chars", text |-> text]
RawValue(bytes) == [kind |-> "raw", bytes |-> bytes]
LogicalValue(b) == [kind |-> "logical", v |-> b]

\* The value of the decimal digits that text starts with at position p,
\* continuing from acc; and the position after them.
IsDigit(c) == c >= 48 /\ c <= 57
RECURSIVE Digits(_, _, _)
Digits(text, p, acc) ==
  IF p > Len(text) \/ ~IsDigit(text[p]) THEN [v |-> acc, p |-> p]
  ELSE Digits(text, p + 1, acc * 10 + (text[p] - 48))

\* atoi: an optional sign and the digits that follow.
atoi(text) ==
  IF Len(text) > 0 /\ text[1] = 45 THEN 0 - Digits(text, 2, 0).v
  ELSE Digits(text, 1, 0).v

RECURSIVE Pow10(_)
Pow10(k) == IF k = 0 THEN 1 ELSE 10 * Pow10(k - 1)

\* strtod / atof of an unsigned decimal number from position p: the value
\* as a fraction.
strtod(text, p) ==
  LET w == Digits(text, p, 0)
      f == IF w.p <= Len(text) /\ text[w.p] = 46
           THEN Digits(text, w.p + 1, 0) ELSE [v |-> 0, p |-> w.p]
      k == IF f.p > w.p THEN f.p - w.p - 1 ELSE 0
  IN [num |-> w.v * Pow10(k) + f.v, den |-> Pow10(k)]

\* timegm: the time from 1970-01-01T00:00:00Z to the broken-down UTC time,
\* by the days-from-civil count of the proleptic Gregorian calendar.  The
\* 64-bit time_t is held as whole days and seconds of the day.
timegm(tm) ==
  LET Y == tm.tm_year + 1900
      m == tm.tm_mon + 1
      y == IF m <= 2 THEN Y - 1 ELSE Y
      era == y \div 400
      yoe == y - era * 400
      mp == IF m > 2 THEN m - 3 ELSE m + 9
      doy == ((153 * mp + 2) \div 5) + tm.tm_mday - 1
      doe == yoe * 365 + (yoe \div 4) - (yoe \div 100) + doy
      sod == tm.tm_hour * 3600 + tm.tm_min * 60 + tm.tm_sec
  IN [days |-> era * 146097 + doe - 719468 + (sod \div 86400),
      sod |-> sod % 86400]

\* mktime: the same for a local time, utcoff seconds east of UTC.
mktime(tm, utcoff) ==
  LET t == timegm(tm) IN
  [days |-> t.days + ((t.sod - utcoff) \div 86400),
   sod |-> (t.sod - utcoff) % 86400]

\* A time_t in seconds.
Seconds(t) == t.days * 86400 + t.sod

\* PqRow::get_int
get_int(cell) == IF is_null(cell) THEN NA_INTEGER ELSE IntValue(atoi(PQgetvalue(cell)))

\* PqRow::get_double
get_double(cell) ==
  IF is_null(cell) THEN NA_REAL
  ELSE LET val == PQgetvalue(cell)
           neg == Len(val) > 0 /\ val[1] = 45
           d == strtod(val, IF neg THEN 2 ELSE 1)
       IN RealValue(0, IF neg THEN 0 - d.num ELSE d.num, d.den)

\* PqRow::get_string
get_string(cell) == IF is_null(cell) THEN NA_STRING ELSE StringValue(PQgetvalue(cell))

\* PqRow::get_raw: the length and the value are read with no test of
\* is_null, and a vector of that length is made.
get_raw(cell) == RawValue(SubSeq(PQgetvalue(cell), 1, PQgetlength(cell)))

\* Mutant: the month is stored as read, 1..12.
tm_of_date_month_from_1(val) ==
  [tm_year |-> (((val[1] - 48) * 10 + (val[2] - 48)) * 10 + (val[3] - 48)) * 10
                 + (val[4] - 48) - 1900,
   tm_mon |-> 10 * (val[6] - 48) + (val[7] - 48),
   tm_mday |-> (val[9] - 48) * 10 + (val[10] - 48),
   tm_hour |-> 0, tm_min |-> 0, tm_sec |-> 0]

\* The year, month and day fields of struct tm that get_date and
\* get_datetime read off "YYYY-MM-DD".
tm_of_date(val) ==
  [tm_year |-> (((val[1] - 48) * 10 + (val[2] - 48)) * 10 + (val[3] - 48)) * 10
                 + (val[4] - 48) - 1900,
   tm_mon |-> 10 * (val[6] - 48) + (val[7] - 48) - 1,
   tm_mday |-> (val[9] - 48) * 10 + (val[10] - 48),
   tm_hour |-> 0, tm_min |-> 0, tm_sec |-> 0]

\* PqRow::get_date: timegm(&date) / (24.0 * 60 * 60) as a fraction.
get_date(cell) ==
  IF is_null(cell) THEN NA_REAL
  ELSE LET t == timegm(tm_of_date(PQgetvalue(cell))) IN
       RealValue(t.days, t.sod, 24 * 60 * 60)

\* PqRow::get_datetime on "YYYY-MM-DD hh:mm:ss[.f]"
get_datetime(cell, use_local, utcoff) ==
  IF is_null(cell) THEN NA_REAL
  ELSE LET val == PQgetvalue(cell)
           sec == strtod(val, 18)
           tm == [tm_of_date(val) EXCEPT
                    !.tm_hour = (val[12] - 48) * 10 + (val[13] - 48),
                    !.tm_min = (val[15] - 48) * 10 + (val[16] - 48),
                    !.tm_sec = sec.num \div sec.den]
           t == IF use_local THEN mktime(tm, utcoff) ELSE timegm(tm)
       IN RealValue(Seconds(t), sec.num - tm.tm_sec * sec.den, sec.den)

\* PqRow::get_time on "hh:mm:ss[.f]"
get_time(cell) ==
  IF is_null(cell) THEN NA_REAL
  ELSE LET val == PQgetvalue(cell)
           hour == (val[1] - 48) * 10 + (val[2] - 48)
           min == (val[4] - 48) * 10 + (val[5] - 48)
           sec == strtod(val, 7)
       IN RealValue(hour * 3600 + min * 60, sec.num, sec.den)

\* PqRow::get_logical
get_logical(cell) ==
  IF is_null(cell) THEN NA_LOGICAL ELSE LogicalValue(PQgetvalue(cell) = <<116>>)

\* PqRow::set_list_value: what is written into slot i of the column buffer
\* for a column of the given type.
set_list_value(type, cell, utcoff) ==
  CASE type = "PGLogical" -> get_logical(cell)
    [] type = "PGInt" -> get_int(cell)
    [] type = "PGReal" -> get_double(cell)
    [] type = "PGVector" -> get_raw(cell)
    [] type = "PGString" -> get_string(cell)
    [] type = "PGDate" -> get_date(cell)
    [] type = "PGDatetimeTZ" -> get_datetime(cell, FALSE, utcoff)
    [] type = "PGDatetime" -> get_datetime(cell, TRUE, utcoff)
    [] type = "PGTime" -> get_time(cell)

\* The type identifiers PqResult::get_column_types knows, and one it does
\* not (600, point).
Oids == {20, 21, 23, 26, 1700, 701, 700, 790, 18, 19, 25, 114, 1042, 1043,
         1082, 1083, 1266, 1114, 1184, 1186, 3802, 2950, 16, 17, 2278, 600}

\* The switch of PqResult::get_column_types for one column.
column_type(oid) ==
  CASE oid \in {20, 21, 23, 26} -> "PGInt"
    [] oid \in {1700, 701, 700, 790} -> "PGReal"
    [] oid \in {18, 19, 25, 114, 1042, 1043} -> "PGString"
    [] oid = 1082 -> "PGDate"
    [] oid \in {1083, 1266} -> "PGTime"
    [] oid = 1114 -> "PGDatetime"
    [] oid = 1184 -> "PGDatetimeTZ"
    [] oid \in {1186, 3802, 2950} -> "PGString"
    [] oid = 16 -> "PGLogical"
    [] oid \in {17, 2278} -> "PGVector"
    [] OTHER -> "PGString"

\* PqResult::get_column_types: PQftype(pSpec_, i) of every column.
get_column_types(oids) == [i \in DOMAIN oids |-> column_type(oids[i])]

\* PqResult::get_column_names: PQfname(pSpec_, i) of every column; column
\* i is named i.
get_column_names(oids) == [i \in DOMAIN oids |-> i]

\* The switch of PqResult::get_column_info for one column: the label, or
\* "stop" where the default branch is taken.
type_label(type) ==
  CASE type = "PGString" -> "character"
    [] type = "PGInt" -> "integer"
    [] type = "PGReal" -> "double"
    [] type = "PGVector" -> "list"
    [] type = "PGLogical" -> "logical"
    [] type = "PGDate" -> "Date"
    [] type = "PGDatetime" -> "POSIXct"
    [] type = "PGDatetimeTZ" -> "POSIXct"
    [] OTHER -> "stop"

\* PqResult::get_column_info on an object with the cached names_ and
\* types_: the two columns of the data frame, or the error.
get_column_info(names, types) ==
  IF \E i \in DOMAIN types : type_label(types[i]) = "stop"
    THEN [err |-> "Unknown variable type", name |-> <<>>, type |-> <<>>]
    ELSE [err |-> "ok", name |-> names,
          type |-> [i \in DOMAIN types |-> type_label(types[i])]]

\* The text the server sends for the date Y-M-D: "YYYY-MM-DD".
DateText(Y, M, D) ==
  <<48 + (Y \div 1000), 48 + ((Y \div 100) % 10), 48 + ((Y \div 10) % 10),
    48 + (Y % 10), 45, 48 + (M \div 10), 48 + (M % 10), 45,
    48 + (D \div 10), 48 + (D % 10)>>

\* The dates of the years within MaxYearsFromEpoch of 1970.
IsLeap(Y) == (Y % 4 = 0 /\ Y % 100 # 0) \/ Y % 400 = 0
DaysInMonth(Y, M) ==
  IF M = 2 THEN (IF IsLeap(Y) THEN 29 ELSE 28)
  ELSE IF M \in {4, 6, 9, 11} THEN 30 ELSE 31
ValidDates ==
  {d \in ((1970 - MaxYearsFromEpoch) .. (1970 + MaxYearsFromEpoch))
           \X (1..12) \X (1..31) : d[3] <= DaysInMonth(d[1], d[2])}

\* Texts the server sends for columns of the other types:
\* "0", "42", "-7"; "1.5", "-0.25", "3"; "", "t", "ab"; "t", "f";
\* "", "\x01"; "1970-01-01 00:00:00", "2000-02-29 12:34:56.5";
\* "00:00:00", "12:34:56.25".
Texts(type) ==
  CASE type = "PGInt" -> {<<48>>, <<52, 50>>, <<45, 55>>}
    [] type = "PGReal" -> {<<49, 46, 53>>, <<45, 48, 46, 50, 53>>, <<51>>}
    [] type = "PGString" -> {<<>>, <<116>>, <<97, 98>>}
    [] type = "PGLogical" -> {<<116>>, <<102>>}
    [] type = "PGVector" -> {<<>>, <<92, 120, 48, 49>>}
    [] type \in {"PGDatetime", "PGDatetimeTZ"} ->
         {<<49, 57, 55, 48, 45, 48, 49, 45, 48, 49, 32, 48, 48, 58, 48, 48,
            58, 48, 48>>,
          <<50, 48, 48, 48, 45, 48, 50, 45, 50, 57, 32, 49, 50, 58, 51, 52,
            58, 53, 54, 46, 53>>}
    [] type = "PGTime" ->
         {<<48, 48, 58, 48, 48, 58, 48, 48>>,
          <<49, 50, 58, 51, 52, 58, 53, 54, 46, 50, 53>>}
    [] OTHER -> {}

\* The columns a row can hold for a type: the value the server encoded
\* (a date, or the text itself, or nothing) and the cell libpq presents.
Columns(type) ==
  {[val |-> <<>>, cell |-> NullCell]}
  \cup {[val |-> t, cell |-> Cell(t)] : t \in Texts(type)}
  \cup (IF type = "PGDate"
        THEN {[val |-> d, cell |-> Cell(DateText(d[1], d[2], d[3]))] :
                d \in ValidDates}
        ELSE {})

\* The offsets of the local time zone from UTC that are tried, in seconds.
UtcOffsets(type) == IF type = "PGDatetime" THEN {0 - 18000, 0, 3600} ELSE {0}

\* PqRow::set_list_value called by the decode loop of fetch for the column
\* that was received.
SetListValue ==
  /\ last.op = "column"
  /\ last' = [op |-> "set_list_value", type |-> last.type, val |-> last.val,
              cell |-> last.cell,
              out |-> set_list_value(last.type, last.cell, last.utcoff)]
  /\ UNCHANGED <<cur, conn, stmt, rs>>

\* PqResult::get_column_info on the object constructed for the statement
\* that was described: names_ and types_ are those the constructor cached.
GetColumnInfo ==
  /\ last.op = "described"
  /\ last' = [op |-> "get_column_info", oids |-> last.oids,
              out |-> get_column_info(get_column_names(last.oids),
                                      get_column_types(last.oids))]
  /\ UNCHANGED <<cur, conn, stmt, rs>>

\* The decoding specification: a column of some type was received with
\* the row, or a statement of up to MaxFields columns was described; the
\* column is decoded, the column information of the statement is asked.
InitDecode ==
  /\ cur = NULL
  /\ conn = IdleConn([ex |-> 0])
  /\ stmt = [np |-> 0, kind |-> "none"]
  /\ rs = [r \in Results |-> Blank("none")]
  /\ \/ \E type \in PGTypes : \E col \in Columns(type) :
          \E utcoff \in UtcOffsets(type) :
            last = [op |-> "column", type |-> type, val |-> col.val,
                    cell |-> col.cell, utcoff |-> utcoff]
     \/ \E n \in 0..MaxFields : \E oids \in [1..n -> Oids] :
          last = [op |-> "described", oids |-> oids]

NextDecode == SetListValue \/ GetColumnInfo

SpecDecode == InitDecode /\ [][NextDecode]_vars

(* ---------------------------------------------------------------- claims *)
\* The objects that exist.
Live == {r \in Results : rs[r].st = "live"}

\* The execution the object sent last is a finite stream of rows: it is in
\* progress on the connection or the lookahead is its terminal unit, and
\* it ends with PGRES_TUPLES_OK.
FiniteStream(R, c) ==
  IF c.busy /\ c.ex = R.exid THEN c.term = "TUPLES_OK"
  ELSE R.exid > 0 /\ R.next.ex = R.exid /\ R.next.status = "TUPLES_OK"

\* The rows of the execution in progress that were not taken yet.
Pending(c) == IF c.busy /\ c.sent < RowUnits(c) THEN RowUnits(c) - c.sent ELSE 0

\* The number of rows of that stream.
StreamRows(R, c) == IF c.busy /\ c.ex = R.exid THEN c.rows ELSE R.next.cmd

\* C1: on a bound, current object fetch(n), n >= 0, returns at most n rows;
\* a fetch(n), n >= 1, that returns fewer than n rows leaves the stream
\* complete, and one on an incomplete stream returns a row or completes it;
\* when is_complete() is true on a finite stream of R rows the chunks
\* returned sum to R; and a fetch on a complete stream returns 0 rows and
\* calls PQgetResult never.
C1_FetchDrains ==
  \A r \in Live :
    rs[r].bound /\ active(r) =>
      /\ \A n \in 0..MaxRows :
           LET f == fetch(rs[r], conn, active(r), n) IN
           f.err = "ok" =>
             /\ Len(f.out) <= n
             /\ (n >= 1 /\ Len(f.out) < n => Complete(f.R))
             /\ (n >= 1 => Len(f.out) >= 1 \/ Complete(f.R))
      /\ Complete(rs[r]) /\ FiniteStream(rs[r], conn) =>
           rs[r].given = StreamRows(rs[r], conn)
      /\ Complete(rs[r]) =>
           \A n \in FetchArgs :
             LET f == fetch(rs[r], conn, active(r), n) IN
             f.err = "ok" /\ f.out = <<>> /\ f.pulled = 0 /\ f.c = conn
               /\ f.R = rs[r]

\* C1 failing state: an object whose first execution was fetched to the
\* end was bound again, the new execution has MaxRows rows, and a fetch
\* has returned no row and reports the stream complete.
C1_Witness ==
  /\ last = Op("fetch", "ok")
  /\ \E r \in Live :
       /\ rs[r].bound /\ active(r) /\ Complete(rs[r])
       /\ rs[r].sends = 2 /\ rs[r].given = 0
       /\ conn.busy /\ conn.owner = r /\ conn.single /\ conn.sent = 0
       /\ conn.term = "TUPLES_OK" /\ conn.rows = MaxRows

\* C2: fetch(n_max) with n_max < 0 on a bound, current object whose stream
\* is finite returns every row that remains, in stream order, in buffers
\* of exactly that length, and leaves the stream complete.
C2_FetchAll ==
  \A r \in Live :
    rs[r].bound /\ active(r) /\ FiniteStream(rs[r], conn) =>
      LET f == fetch(rs[r], conn, active(r), 0 - 1)
          R == StreamRows(rs[r], conn) - rs[r].given
      IN
      /\ f.err = "ok"
      /\ Len(f.out) = R
      /\ f.cap = R
      /\ \A k \in 1..Len(f.out) : f.out[k] = <<rs[r].exid, rs[r].given + k>>
      /\ Complete(f.R)

\* C2 failing state: the object drained its first execution, of more than
\* four times the initial capacity, was bound again for MaxRows rows, and
\* a fetch without limit returned none of them.
C2_Witness ==
  /\ last = Op("fetch_all", "ok")
  /\ rs[1].bound /\ active(1) /\ Complete(rs[1])
  /\ rs[1].next.cmd = 4 * InitCap + 1
  /\ rs[1].sends = 2 /\ rs[1].given = 0
  /\ conn.busy /\ conn.owner = 1 /\ conn.single /\ conn.sent = 0
  /\ conn.term = "TUPLES_OK" /\ conn.rows = MaxRows

\* C3 as stated: a fetch on a live object that is not the connection's
\* current result fails with StaleResultError, takes nothing off the
\* connection and changes no object.
C3_StaleFetch ==
  [][\A r \in Results : \A n \in FetchArgs :
       (rs[r].st = "live" /\ ~active(r) /\ Fetch(r, n)) =>
         (last'.out = "StaleResultError" /\ UNCHANGED <<rs, conn, cur, stmt>>)
    ]_vars

\* C3 amended: a fetch on a live object that is not the connection's
\* current result fails with StaleResultError when the object is bound and
\* with BindingError when it is not; either way nothing is taken off the
\* connection and no object changes.
C3_StaleFetchByBound ==
  [][\A r \in Results : \A n \in FetchArgs :
       (rs[r].st = "live" /\ ~active(r) /\ Fetch(r, n)) =>
         /\ last'.out = IF rs[r].bound THEN "StaleResultError"
                        ELSE "BindingError"
         /\ UNCHANGED <<rs, conn, cur, stmt>>
    ]_vars

\* C3 witness: a bound object, made stale by the construction of a second
\* one whose rows are still on the connection, was fetched and refused.
C3_Witness ==
  /\ last = Op("fetch", "StaleResultError")
  /\ \E r \in Live, q \in Live :
       /\ r # q /\ ~active(r) /\ active(q) /\ rs[r].bound
       /\ conn.busy /\ conn.owner = q /\ Pending(conn) > 0

\* C4: a fetch on a live object whose bound_ is false fails with
\* BindingError; nothing is taken off the connection and the object (its
\* row count, lookahead and bound_) and every other one are unchanged.
C4_UnboundFetch ==
  [][\A r \in Results : \A n \in FetchArgs :
       (rs[r].st = "live" /\ ~rs[r].bound /\ Fetch(r, n)) =>
         (last'.out = "BindingError" /\ UNCHANGED <<rs, conn, cur, stmt>>)
    ]_vars

\* C4 witness: the current object, made for a statement with a parameter
\* and not bound, was fetched and refused.
C4_Witness ==
  /\ last = Op("fetch", "BindingError")
  /\ \E r \in Live :
       active(r) /\ ~rs[r].bound /\ rs[r].nparams > 0 /\ rs[r].sends = 0

\* C5: every bind operation called with a number of parameters other than
\* nparams_ fails with ArityError, sends nothing and executes nothing, and
\* leaves bound_ and the connection as they were: bind() when nparams_ is
\* not 0, bind(params) and bind_rows(params) when the list is of another
\* length.
C5_ArityChecked ==
  \A r \in Live :
    /\ rs[r].nparams # 0 =>
         \A in \in SendInputs(stmt, 0) :
           LET b == bind(rs[r], conn, r, in.sendOk, in.srmOk, in.st) IN
           b.err = "ArityError" /\ b.sent = 0 /\ b.c = conn /\ b.R = rs[r]
    /\ \A in \in BindInputs(rs[r], stmt) :
         in.nsup # rs[r].nparams =>
           LET b == bind_params(rs[r], conn, r, in.nsup, in.sendOk, in.srmOk,
                                in.st) IN
           b.err = "ArityError" /\ b.sent = 0 /\ b.c = conn /\ b.R = rs[r]
    /\ \A in \in BatchInputs(MaxParams) :
         Len(in.lens) # rs[r].nparams =>
           LET t == bind_rows(rs[r], in.lens, stmt, in.failAt, in.intr,
                              in.garbage, in.faults) IN
           t.err = "ArityError" /\ t.att = <<>>

\* C5 failing state: bind() was called on the current object of a
\* statement with a parameter; it returned without error, the statement
\* was sent with no parameter and bound_ is true.
C5_Witness ==
  /\ last = Op("bind", "ok")
  /\ \E r \in Live :
       /\ active(r) /\ rs[r].nparams > 0 /\ rs[r].bound /\ rs[r].sends = 1
       /\ conn.busy /\ conn.owner = r /\ conn.sent = 0

\* The inputs of a constructor that meets no failure.
Accepted == {in \in CtorInputs(MaxParams) :
               in.connOk /\ in.prepOk /\ in.descOk /\ in.sendOk /\ in.srmOk}

\* C6: right after a constructor has returned without error the object
\* is the current result; if its statement has no parameter it is bound,
\* its execution is the one in progress on the connection, in single-row
\* mode, with no unit taken, and a fetch is not refused: it returns the
\* rows asked for, or the error of an execution the server failed when
\* the fetch reaches the failure; if the statement has parameters the
\* object is unbound and nothing was sent.
C6_AutoBind ==
  last = Op("construct", "ok") =>
    \E r \in Live :
      /\ active(r)
      /\ rs[r].nparams = stmt.np
      /\ rs[r].nparams = 0 =>
           /\ rs[r].bound /\ rs[r].sends = 1 /\ rs[r].next = NoRow
           /\ conn.busy /\ conn.owner = r /\ conn.single /\ conn.sent = 0
           /\ \A n \in FetchArgs :
                LET f == fetch(rs[r], conn, active(r), n) IN
                IF conn.term = "FATAL_ERROR" /\ (n < 0 \/ n >= conn.rows)
                  THEN f.err = "QueryError"
                  ELSE /\ f.err = "ok"
                       /\ Len(f.out) = IF n < 0 \/ n > RowUnits(conn)
                                       THEN RowUnits(conn) ELSE n
      /\ rs[r].nparams > 0 =>
           ~rs[r].bound /\ rs[r].sends = 0 /\ ~conn.busy

\* C6 witness: an object was constructed for a parameterless query of
\* MaxRows rows and is bound, with all its rows still to come.
C6_Witness ==
  /\ last = Op("construct", "ok")
  /\ \E r \in Live :
       /\ active(r) /\ rs[r].nparams = 0 /\ rs[r].bound /\ rs[r].next = NoRow
       /\ conn.busy /\ conn.owner = r /\ conn.single /\ conn.sent = 0
       /\ conn.rows = MaxRows /\ conn.term = "TUPLES_OK"

\* C7: when the connection's current object is destroyed, whatever its
\* stage, the connection has no current result afterwards, and a
\* constructor that meets no failure then returns a live object that is
\* the current result.
C7_DestroyThenConstruct ==
  [][\A r \in Results :
       (rs[r].st = "live" /\ active(r) /\ Destroy(r)) =>
         /\ cur' = NULL
         /\ rs'[r].note \in {"unbound", "undrained", "complete"}
         /\ \A q \in Results : \A in \in Accepted :
              LET k == PqResult(cur', conn', stmt', q, in) IN
              k.err = "ok" /\ k.cur = q /\ k.R.st = "live"
    ]_vars

\* C7 witness: the first object was destroyed while current with rows
\* undrained, and the second has been constructed and is current.
C7_Witness ==
  /\ last = Op("construct", "ok")
  /\ rs[1].st = "dead" /\ rs[1].note = "undrained"
  /\ rs[2].st = "live" /\ active(2)

\* C8: a constructor that fails after set_current_result(this), that is
\* at the prepare, the describe, the send or the switch to single-row
\* mode, leaves the connection with no current result, so the object that
\* failed is not current.
C8_FailedCtorDeregisters ==
  \A r \in Results : \A in \in CtorInputs(MaxParams) :
    LET k == PqResult(cur, conn, stmt, r, in) IN
    in.connOk /\ k.err # "ok" =>
      k.cur # r /\ k.cur = NULL /\ k.R.st = "failed"

\* C8 witness: a constructor has just failed at the switch to single-row
\* mode or before, after an earlier object had been current.
C8_Witness ==
  /\ last = Op("construct", "QueryError")
  /\ cur = NULL
  /\ rs[1].st = "live" /\ rs[2].st = "failed"

\* The columns all have the same length.
Rectangular(lens) == \A i, j \in DOMAIN lens : lens[i] = lens[j]

\* The rows 1..k in order.
Rows(k) == [i \in 1..k |-> i]

\* C9: bind_rows on the current object of a statement that returns no
\* rows, given a column per parameter, all of n values, and no interrupt,
\* executes rows 1, 2, ... in order, one PQexecPrepared each; when the
\* server rejects row k the call fails with a QueryError naming row k,
\* rows 1..k-1 are applied, each executed once, and no row after k is
\* executed; when it rejects none all n rows are executed and applied.
C9_BatchInOrder ==
  \A r \in Live :
    active(r) /\ stmt.kind = "command" /\ rs[r].nparams >= 1 =>
      \A in \in BatchInputs(MaxColumns) :
        Len(in.lens) = rs[r].nparams /\ Rectangular(in.lens) /\ ~in.intr =>
          LET t == bind_rows(rs[r], in.lens, stmt, in.failAt, in.intr,
                             in.garbage, in.faults)
              n == in.lens[1]
              k == in.failAt
          IN
          IF k \in 1..n
            THEN /\ t.err = "QueryError" /\ t.errrow = k
                 /\ t.att = Rows(k) /\ t.app = Rows(k - 1)
            ELSE /\ t.err = "ok" /\ t.errrow = 0
                 /\ t.att = Rows(n) /\ t.app = Rows(n)

\* C9 witness: bind_rows on the current object of a command with
\* MaxColumns parameters failed at row 2 of MaxBatch, after row 1 was
\* applied.
C9_Witness ==
  /\ last.op = "bind_rows" /\ last.out = "QueryError"
  /\ last.errrow = 2 /\ last.att = <<1, 2>> /\ last.app = <<1>>
  /\ \E r \in Live :
       active(r) /\ rs[r].nparams = MaxColumns /\ stmt.kind = "command"

\* C10: bind_rows given a column per parameter, the columns not all of
\* the same length, fails with ArityError and executes no row.
C10_RaggedRejected ==
  \A r \in Live :
    \A in \in BatchInputs(MaxColumns) :
      Len(in.lens) = rs[r].nparams /\ ~Rectangular(in.lens) =>
        LET t == bind_rows(rs[r], in.lens, stmt, in.failAt, in.intr,
                           in.garbage, in.faults) IN
        t.err = "ArityError" /\ t.att = <<>>

\* C10 failing state: bind_rows on the current object of a command with
\* MaxColumns parameters executed and applied row 1 and then faulted on a
\* read past the end of a shorter column.
C10_Witness ==
  /\ last.op = "bind_rows" /\ last.out = "Crash"
  /\ last.att = <<1>> /\ last.app = <<1>>
  /\ \E r \in Live :
       active(r) /\ rs[r].nparams = MaxColumns /\ stmt.kind = "command"

\* The absent element of a list column.
R_NilValue == [kind |-> "R_NilValue"]

\* The missing value of the buffer of each column type.
Sentinel(type) ==
  CASE type = "PGInt" -> NA_INTEGER
    [] type = "PGString" -> NA_STRING
    [] type = "PGLogical" -> NA_LOGICAL
    [] type = "PGVector" -> R_NilValue
    [] OTHER -> NA_REAL

\* C11: for a column of any type whose value is null, set_list_value
\* writes the missing value of that type into the buffer slot.
C11_NullSentinel ==
  last.op = "set_list_value" /\ last.cell.null =>
    last.out = Sentinel(last.type)

\* C11 failing state: a null column of a bytea statement column was
\* decoded into a raw vector of length 0.
C11_Witness ==
  /\ last.op = "set_list_value" /\ last.type = "PGVector"
  /\ last.cell.null /\ last.out = RawValue(<<>>)

\* C12: get_column_info on a constructed object returns without error one
\* name and one type label per column, in column order, whatever types
\* get_column_types gave the columns.
C12_ColumnInfo ==
  last.op = "get_column_info" =>
    /\ last.out.err = "ok"
    /\ Len(last.out.name) = Len(last.oids)
    /\ Len(last.out.type) = Len(last.oids)
    /\ \A i \in DOMAIN last.oids :
         /\ last.out.name[i] = get_column_names(last.oids)[i]
         /\ last.out.type[i] # "stop"

\* C12 failing state: the column information of a statement with a time
\* column after an integer column was asked and the call failed.
C12_Witness ==
  /\ last.op = "get_column_info" /\ last.oids = <<23, 1083>>
  /\ last.out.err = "Unknown variable type"

\* The days from 1970-01-01 to Y-M-D counted on the calendar: the years
\* between, a day more for each leap year among them, and the days of the
\* months of year Y before M.
RECURSIVE DaysBeforeMonth(_, _)
DaysBeforeMonth(Y, M) ==
  IF M = 1 THEN 0 ELSE DaysBeforeMonth(Y, M - 1) + DaysInMonth(Y, M - 1)

DaysSinceEpoch(Y, M, D) ==
  (IF Y >= 1970
     THEN 365 * (Y - 1970) + Cardinality({y \in 1970..(Y - 1) : IsLeap(y)})
     ELSE 0 - (365 * (1970 - Y) + Cardinality({y \in Y..1969 : IsLeap(y)})))
  + DaysBeforeMonth(Y, M) + (D - 1)

\* C13: a date column holding the text "YYYY-MM-DD" of a valid date of
\* the years modelled decodes to the whole number of days from 1970-01-01
\* to that date, with no fraction.
C13_DateDays ==
  last.op = "set_list_value" /\ last.type = "PGDate" /\ ~last.cell.null =>
    last.out = RealValue(DaysSinceEpoch(last.val[1], last.val[2],
                                        last.val[3]), 0, 24 * 60 * 60)

\* C13 witness: '2024-03-15' was decoded to 19797 days.
C13_Witness ==
  /\ last.op = "set_list_value" /\ last.type = "PGDate"
  /\ last.val = <<2024, 3, 15>>
  /\ last.cell = Cell(<<50, 48, 50, 52, 45, 48, 51, 45, 49, 53>>)
  /\ last.out = RealValue(19797, 0, 24 * 60 * 60)

\* A unit that ends the stream of an execution without error.
Terminal(unit) == unit.status \in {"TUPLES_OK", "COMMAND_OK"}

\* C14: whenever the next unit of the connection is terminal (the end of
\* a row query or the affected count of a statement without rows), a PqRow
\* constructed then takes units until PQgetResult is NULL and leaves the
\* connection with nothing in progress; constructed from a unit with a
\* row it takes that unit alone.
C14_DrainsAfterTerminal ==
  LET g == PQgetResult(conn)
      p == PqRow(conn)
  IN
  /\ Terminal(g.unit) =>
       ~p.c.busy /\ p.pulled = (RowUnits(conn) + 2) - conn.sent
  /\ has_data(g.unit) => p.c = g.c /\ p.pulled = 1

\* The part of C14 about units that end a row query.
C14_RowQueryDrained ==
  LET g == PQgetResult(conn) IN
  g.unit.status = "TUPLES_OK" => ~PqRow(conn).c.busy

\* The part of C14 about units with a row.
C14_OneForARow ==
  LET g == PQgetResult(conn) IN
  has_data(g.unit) => PqRow(conn).c = g.c /\ PqRow(conn).pulled = 1

\* C14 failing state: the lookahead cursor of an object holds the affected
\* count of the execution in progress and the connection is still busy
\* with that execution, its end not taken.
C14_Witness ==
  \E r \in Results :
    /\ rs[r].st = "live" /\ rs[r].next.status = "COMMAND_OK"
    /\ rs[r].next.ex = conn.ex /\ conn.busy
    /\ PQgetResult(conn).unit = NullUnit

\* Reached as well: the lookahead cursor holds the end of a row query and
\* the connection is idle.
C14_RowQueryWitness ==
  \E r \in Results :
    /\ rs[r].st = "live" /\ rs[r].next.status = "TUPLES_OK"
    /\ rs[r].next.ex = conn.ex /\ ~conn.busy

\* C15: every result an object obtains is given to PQclear once by the
\* time the object is gone, on every path.  In each reachable state: a
\* constructor that fails leaves no description in pSpec_; the destructor
\* of a constructed object, registered or not, clears pSpec_; bind_rows, on
\* success and on failure, clears as many results as PQexecPrepared gave
\* it; a PqRow clears every result it obtained but the one it keeps.
C15_ReleasedOnce ==
  /\ \A r \in Results : \A in \in CtorInputs(MaxColumns) :
       LET k == PqResult(cur, conn, stmt, r, in) IN
       k.err # "ok" => k.pSpec \in {"none", "cleared"}
  /\ \A r \in Results :
       rs[r].st = "live" => Destructor_pSpec(cur, r) = "cleared"
  /\ \A r \in Results :
       rs[r].st = "live" =>
         \A t \in BatchOutcomes(rs[r], stmt, MaxColumns) :
           t.cleared = Len(t.att)
  /\ LET p == PqRow(conn) IN
     p.got = p.cleared + (IF p.row # NoRow THEN 1 ELSE 0)

\* The part of C15 about the results taken by a PqRow.
C15_RowUnits ==
  LET p == PqRow(conn) IN
  p.got = p.cleared + (IF p.row # NoRow THEN 1 ELSE 0)

\* The part of C15 about a constructor that fails at the describe.
C15_DescribeFailure ==
  \A r \in Results : \A in \in CtorInputs(MaxColumns) :
    in.connOk /\ in.prepOk /\ ~in.descOk =>
      PqResult(cur, conn, stmt, r, in).pSpec = "cleared"

\* The part of C15 about the destructor of the registered object.
C15_ActiveDestructor ==
  \A r \in Results :
    rs[r].st = "live" /\ active(r) => Destructor_pSpec(cur, r) = "cleared"

\* C15 failing state: an object that was no longer the registered one was
\* destroyed, its pSpec_ not cleared, while another object is registered.
C15_Witness ==
  /\ \E r \in Results : rs[r].st = "dead" /\ rs[r].note = "stale"
  /\ \E q \in Results : rs[q].st = "live" /\ active(q)

\* C16: on a bound, current object every fetch, whatever its limit and
\* whatever calls of is_complete, n_rows_affected and n_rows_fetched came
\* between, returns the rows of the object's execution that follow the
\* rows already returned, in stream order, none skipped and none twice;
\* a row left in the lookahead is the row the next chunk starts with.
C16_ChunksArePrefix ==
  \A r \in Live :
    rs[r].bound /\ active(r) =>
      \A n \in FetchArgs :
        LET f == fetch(rs[r], conn, active(r), n) IN
        f.err = "ok" =>
          /\ \A k \in 1..Len(f.out) :
               f.out[k] = <<rs[r].exid, rs[r].given + k>>
          /\ has_data(f.R.next) =>
               /\ f.R.next.ex = rs[r].exid
               /\ f.R.next.row = rs[r].given + Len(f.out) + 1


\* C16 holds of an object that sent one execution while no other object
\* exists.
C16_LoneFirstExecution ==
  \A r \in Live :
    /\ rs[r].bound /\ active(r) /\ rs[r].sends = 1
    /\ \A q \in Results \ {r} : rs[q].st \in {"none", "failed"}
    =>
      \A n \in FetchArgs :
        LET f == fetch(rs[r], conn, active(r), n) IN
        f.err = "ok" =>
          /\ \A k \in 1..Len(f.out) :
               f.out[k] = <<rs[r].exid, rs[r].given + k>>
          /\ has_data(f.R.next) =>
               /\ f.R.next.ex = rs[r].exid
               /\ f.R.next.row = rs[r].given + Len(f.out) + 1

\* C16 failing state: the only object there is, bound and current, has
\* returned one row of its second execution by fetch and the lookahead
\* holds row 1 of that execution: the row returned was the lookahead of
\* the first execution.
C16_Witness ==
  /\ last = Op("fetch", "ok")
  /\ \E r \in Live :
       /\ rs[r].bound /\ active(r) /\ rs[r].sends = 2 /\ rs[r].given = 1
       /\ has_data(rs[r].next) /\ rs[r].next.ex = rs[r].exid
       /\ rs[r].next.row = 1
       /\ \A q \in Results \ {r} : rs[q].st = "none"

\* Every successful call on the object r leaves n_rows_fetched as it was,
\* but a fetch, which adds the number of rows it returns.
CountFollowsChunks(r) ==
  /\ \A n \in FetchArgs :
       LET f == fetch(rs[r], conn, active(r), n) IN
       f.err = "ok" =>
         n_rows_fetched(f.R) = n_rows_fetched(rs[r]) + Len(f.out)
  /\ LET p == fetch_row_if_needed(rs[r], conn) IN
     p.err = "ok" => n_rows_fetched(p.R) = n_rows_fetched(rs[r])
  /\ \A in \in SendInputs(stmt, 0) :
       LET b == bind(rs[r], conn, r, in.sendOk, in.srmOk, in.st) IN
       b.err = "ok" => n_rows_fetched(b.R) = n_rows_fetched(rs[r])
  /\ \A in \in BindInputs(rs[r], stmt) :
       LET b == bind_params(rs[r], conn, r, in.nsup, in.sendOk, in.srmOk,
                            in.st) IN
       b.err = "ok" => n_rows_fetched(b.R) = n_rows_fetched(rs[r])

\* C17, the count: n_rows_fetched is 0 on a constructed object, stays so
\* through is_complete and n_rows_affected, and grows by the length of
\* each chunk fetch returns.
C17_CountIsRowsReturned ==
  /\ \A r \in Results : \A in \in CtorInputs(MaxParams) :
       LET k == PqResult(cur, conn, stmt, r, in) IN
       k.err = "ok" => n_rows_fetched(k.R) = 0
  /\ \A r \in Live : CountFollowsChunks(r)

\* C17 for an object just constructed and bound, whose every call so far
\* succeeded: after a fetch that succeeds n_rows_fetched is the number of
\* rows it returned; and when then, with or without a bind() that
\* succeeds in between, is_complete succeeds and reports the end of a
\* finite stream, n_rows_fetched is the number of rows of that stream.
C17_RowsFetchedSoFar ==
  \A r \in Live :
    last = Op("construct", "ok") /\ active(r) /\ rs[r].bound =>
      \A n \in FetchArgs :
        LET f == fetch(rs[r], conn, active(r), n)
            q == fetch_row_if_needed(f.R, f.c)
        IN
        f.err = "ok" =>
          /\ n_rows_fetched(f.R) = Len(f.out)
          /\ q.err = "ok" /\ Complete(q.R) /\ FiniteStream(q.R, q.c) =>
               n_rows_fetched(q.R) = StreamRows(q.R, q.c)
          /\ \A in \in SendInputs(stmt, 0) :
               LET b == bind(f.R, f.c, r, in.sendOk, in.srmOk, in.st)
                   p == fetch_row_if_needed(b.R, b.c)
               IN
               /\ b.err = "ok" /\ p.err = "ok"
               /\ Complete(p.R) /\ FiniteStream(p.R, p.c)
               => n_rows_fetched(p.R) = StreamRows(p.R, p.c)

\* The same without the bind(): the part of C17_RowsFetchedSoFar that
\* holds.
C17_FirstExecution ==
  \A r \in Live :
    last = Op("construct", "ok") /\ active(r) /\ rs[r].bound =>
      \A n \in FetchArgs :
        LET f == fetch(rs[r], conn, active(r), n)
            q == fetch_row_if_needed(f.R, f.c)
        IN
        f.err = "ok" =>
          /\ n_rows_fetched(f.R) = Len(f.out)
          /\ q.err = "ok" /\ Complete(q.R) /\ FiniteStream(q.R, q.c) =>
               n_rows_fetched(q.R) = StreamRows(q.R, q.c)

\* C17 failing state: the only object there is fetched its first
\* execution, of one row, to the end and was bound again; the second
\* execution has MaxRows rows, none taken, and is_complete has answered
\* from the old lookahead: the stream counts as complete with 1 row
\* fetched.
C17_Witness ==
  /\ last = Op("is_complete", "ok")
  /\ \E r \in Live :
       /\ rs[r].bound /\ active(r) /\ Complete(rs[r])
       /\ rs[r].sends = 2 /\ n_rows_fetched(rs[r]) = 1
       /\ conn.busy /\ conn.owner = r /\ conn.ex = rs[r].exid
       /\ conn.single /\ conn.sent = 0 /\ conn.term = "TUPLES_OK"
       /\ conn.rows = MaxRows
       /\ \A q \in Results \ {r} : rs[q].st = "none"

\* C18: on a constructed object that is not the connection's current
\* result, is_complete, n_rows_affected, bind(), bind(List) and bind_rows
\* fail with StaleResultError and neither send anything nor take a unit
\* off the connection.
C18_StaleNoIO ==
  \A r \in Live :
    ~active(r) =>
      /\ LET p == fetch_row_if_needed(rs[r], conn) IN
         p.err = "StaleResultError" /\ p.pulled = 0 /\ p.c = conn
      /\ \A in \in SendInputs(stmt, 0) :
           LET b == bind(rs[r], conn, r, in.sendOk, in.srmOk, in.st) IN
           b.err = "StaleResultError" /\ b.sent = 0 /\ b.c = conn
      /\ \A in \in BindInputs(rs[r], stmt) :
           LET b == bind_params(rs[r], conn, r, in.nsup, in.sendOk,
                                in.srmOk, in.st) IN
           b.err = "StaleResultError" /\ b.sent = 0 /\ b.c = conn
      /\ \A t \in BatchOutcomes(rs[r], stmt, MaxParams) :
           t.err = "StaleResultError" /\ t.att = <<>>

\* C18 failing state: is_complete on a stale object has succeeded and its
\* lookahead holds a row of the execution of the current object, which is
\* still in progress.
C18_Witness ==
  /\ last = Op("is_complete", "ok")
  /\ \E r \in Live, q \in Live :
       /\ r # q /\ ~active(r) /\ active(q)
       /\ has_data(rs[r].next) /\ rs[r].next.ex = rs[q].exid
       /\ rs[q].robbed /\ conn.busy /\ conn.owner = q
       /\ conn.ex = rs[q].exid

\* Reached as well: bind(List) on a stale object has sent an execution.
C18_StaleSendWitness ==
  /\ last = Op("bind_params", "ok")
  /\ \E r \in Live :
       ~active(r) /\ conn.busy /\ conn.owner = r /\ conn.ex = rs[r].exid

\* C19: bound_ is true only of an object that sent an execution, and a
\* bind() or bind(List) that fails leaves bound_ as it was, while one that
\* succeeds has sent the execution in single-row mode and sets it.
C19_BoundMeansSent ==
  \A r \in Live :
    /\ rs[r].bound => rs[r].sends > 0
    /\ \A in \in SendInputs(stmt, 0) :
         LET b == bind(rs[r], conn, r, in.sendOk, in.srmOk, in.st) IN
         IF b.err = "ok"
           THEN b.R.bound /\ b.sent = 1 /\ b.c.single /\ b.c.owner = r
           ELSE b.R.bound = rs[r].bound
    /\ \A in \in BindInputs(rs[r], stmt) :
         LET b == bind_params(rs[r], conn, r, in.nsup, in.sendOk, in.srmOk,
                              in.st) IN
         IF b.err = "ok"
           THEN b.R.bound /\ b.sent = 1 /\ b.c.single /\ b.c.owner = r
           ELSE b.R.bound = rs[r].bound

\* The part of C19 about bind(List).
C19_BindParamsKeeps ==
  \A r \in Live :
    \A in \in BindInputs(rs[r], stmt) :
      LET b == bind_params(rs[r], conn, r, in.nsup, in.sendOk, in.srmOk,
                           in.st) IN
      IF b.err = "ok"
        THEN b.R.bound /\ b.sent = 1 /\ b.c.single /\ b.c.owner = r
        ELSE b.R.bound = rs[r].bound

\* The part of C19 about a bind() that succeeds.
C19_BindSucceeds ==
  \A r \in Live :
    \A in \in SendInputs(stmt, 0) :
      LET b == bind(rs[r], conn, r, in.sendOk, in.srmOk, in.st) IN
      b.err = "ok" => b.R.bound /\ b.sent = 1 /\ b.c.single /\ b.c.owner = r

\* C19 failing state: bind() on an object that never sent anything has
\* failed at the send, and bound_ is true.
C19_Witness ==
  /\ last = Op("bind", "QueryError")
  /\ \E r \in Live :
       rs[r].bound /\ rs[r].sends = 0 /\ rs[r].nparams > 0 /\ ~conn.busy

\* C20: after a bind(List) that succeeds on a bound, current object, with
\* rows of the previous execution fetched or all of them, is_complete and
\* n_rows_affected answer from a unit of the new execution, a fetch
\* returns rows of the new execution only, and a new execution that has
\* rows is not reported complete.
C20_RebindStartsAfresh ==
  \A r \in Live :
    rs[r].bound /\ active(r) =>
      \A in \in BindInputs(rs[r], stmt) :
        LET b == bind_params(rs[r], conn, r, in.nsup, in.sendOk, in.srmOk,
                             in.st)
            p == fetch_row_if_needed(b.R, b.c)
        IN
        b.err = "ok" =>
          /\ p.err = "ok" =>
               /\ p.R.next.ex = b.R.exid
               /\ RowUnits(b.c) > 0 => ~Complete(p.R)
          /\ \A n \in FetchArgs :
               LET f == fetch(b.R, b.c, TRUE, n) IN
               f.err = "ok" =>
                 /\ \A k \in 1..Len(f.out) : f.out[k][1] = b.R.exid
                 /\ f.R.next.ex = b.R.exid

\* C20 for the first bind(List) of an object that holds no lookahead.
C20_FirstBind ==
  \A r \in Live :
    active(r) /\ rs[r].next = NoRow =>
      \A in \in BindInputs(rs[r], stmt) :
        LET b == bind_params(rs[r], conn, r, in.nsup, in.sendOk, in.srmOk,
                             in.st)
            p == fetch_row_if_needed(b.R, b.c)
        IN
        b.err = "ok" =>
          /\ p.err = "ok" =>
               /\ p.R.next.ex = b.R.exid
               /\ RowUnits(b.c) > 0 => ~Complete(p.R)
          /\ \A n \in FetchArgs :
               LET f == fetch(b.R, b.c, TRUE, n) IN
               f.err = "ok" =>
                 /\ \A k \in 1..Len(f.out) : f.out[k][1] = b.R.exid
                 /\ f.R.next.ex = b.R.exid

\* C20 failing state: an object with one parameter fetched its first
\* execution to the end and bind(List) has sent a second one, of MaxRows
\* rows; the lookahead still holds the end of the first execution, so the
\* object reports the new stream complete.
C20_Witness ==
  /\ last = Op("bind_params", "ok")
  /\ \E r \in Live :
       /\ rs[r].bound /\ active(r) /\ rs[r].nparams = 1 /\ rs[r].sends = 2
       /\ Complete(rs[r]) /\ rs[r].next.ex < rs[r].exid
       /\ conn.busy /\ conn.owner = r /\ conn.ex = rs[r].exid
       /\ conn.single /\ conn.sent = 0 /\ conn.rows = MaxRows
       /\ conn.term = "TUPLES_OK"

\* Reached as well: the second execution was sent while the lookahead
\* held a row of the first.
C20_OldRowWitness ==
  /\ last = Op("bind_params", "ok")
  /\ \E r \in Live :
       /\ rs[r].bound /\ active(r) /\ rs[r].sends = 2
       /\ has_data(rs[r].next) /\ rs[r].next.ex < rs[r].exid
       /\ conn.busy /\ conn.owner = r /\ conn.ex = rs[r].exid
       /\ conn.single /\ conn.sent = 0

====
